---- MODULE Spec2Model ----
(***************************************************************************)
(* Model of pygmt.project (src/pygmt/src/project.py): one call of the      *)
(* wrapper, step by step, with the `with` blocks of the temporary file,    *)
(* the session and the staged table made explicit.                         *)
(*                                                                         *)
(* Strings are sequences of one-character strings, so that list(str),      *)
(* str.join and string formatting are computed, not assumed.  An argument  *)
(* string is the sequence of its space-separated tokens.                   *)
(***************************************************************************)
EXTENDS Integers, Sequences, FiniteSets, TLC

VARIABLES points, center, outfileArg, kwargs, pc, exc, outfile, tmpHeld,
          sessionOpen, table_context, vfOpen, csvfile, calls, trace,
          column_names, result, outcome

vars == <<points, center, outfileArg, kwargs, pc, exc, outfile, tmpHeld,
          sessionOpen, table_context, vfOpen, csvfile, calls, trace,
          column_names, result, outcome>>

(* ------------------------------ bounds -------------------------------- *)
MaxCols == 4
MaxFlagLen == 4
MaxCoord == 1

(* ------------------------- values of the inputs ------------------------ *)
NoneValue == <<"None">>
TmpName == <<"pygmt-tmp.csv">>
UserOutfile == <<"out.txt">>
PointsFile == <<"points.txt">>
VirtualFileName == <<"@GMTAPI@-000000">>
UserC == <<"9", "/", "9">>
GenerateValue == <<"1">>

FlagLetters == {"x", "y", "z", "p"}
ColNames == {"lon", "y", "z", "x"}
DefaultFlags == <<"x", "y", "z", "p", "q", "r", "s">>
GenerateColumns == <<"r", "s", "p">>

Min(a, b) == IF a < b THEN a ELSE b

\* sequences over S without repeated elements, of length at most n
Distinct(S, n) ==
  UNION { { f \in [1..k -> S] : \A i, j \in 1..k : i # j => f[i] # f[j] }
          : k \in 0..Min(n, Cardinality(S)) }

FlagStrings == Distinct(FlagLetters, MaxFlagLen)
ColumnLists == Distinct(ColNames, MaxCols)
Centers == [1..2 -> 0..MaxCoord]

\* the value `points`: what data_kind says of it, and its column names
PointsValues ==
  { [kind |-> "matrix", columns |-> c] : c \in ColumnLists }
  \cup { [kind |-> "file", columns |-> <<>>],
         [kind |-> "other", columns |-> <<>>] }

(* ------------------------------ helpers -------------------------------- *)
data_kind(p) == p.kind

Digit(d) == CASE d = 0 -> "0" [] d = 1 -> "1" [] d = 2 -> "2" [] d = 3 -> "3"
              [] d = 4 -> "4" [] d = 5 -> "5" [] d = 6 -> "6" [] d = 7 -> "7"
              [] d = 8 -> "8" [] d = 9 -> "9"

RECURSIVE Format(_)
\* f"{item}" of a natural number
Format(n) == IF n < 10 THEN <<Digit(n)>>
             ELSE Format(n \div 10) \o <<Digit(n % 10)>>

RECURSIVE SlashJoin(_)
\* "/".join(f"{item}" for item in c)
SlashJoin(c) ==
  IF Len(c) = 0 THEN <<>>
  ELSE IF Len(c) = 1 THEN Format(c[1])
  ELSE Format(c[1]) \o <<"/">> \o SlashJoin(Tail(c))

\* the keyword arguments after use_alias: flags -> F, generate -> G
AliasedKwargs(hasF, f, hasG, hasC) ==
  [k \in (IF hasF THEN {"F"} ELSE {}) \cup (IF hasG THEN {"G"} ELSE {})
         \cup (IF hasC THEN {"C"} ELSE {})
     |-> CASE k = "F" -> f [] k = "G" -> GenerateValue [] k = "C" -> UserC]

SetItem(kw, key, val) ==
  [k \in DOMAIN kw \cup {key} |-> IF k = key THEN val ELSE kw[k]]

KeyOrder == <<"C", "F", "G">>

RECURSIVE ArgTokens(_, _)
ArgTokens(kw, i) ==
  IF i > Len(KeyOrder) THEN <<>>
  ELSE (IF KeyOrder[i] \in DOMAIN kw
        THEN << <<"-", KeyOrder[i]>> \o kw[KeyOrder[i]] >>
        ELSE <<>>) \o ArgTokens(kw, i + 1)

\* one token "-<key><value>" per option, keys in sorted order
build_arg_string(kw) == ArgTokens(kw, 1)

Redirect(name) == <<"->">> \o name

\* list.index: the first position of v, 0 when list.index raises ValueError
Index(s, v) ==
  IF \E i \in 1..Len(s) : s[i] = v
  THEN CHOOSE i \in 1..Len(s) : s[i] = v /\ \A j \in 1..(i - 1) : s[j] # v
  ELSE 0

SetAt(s, i, v) == [s EXCEPT ![i] = v]
Pop(s, i) == SubSeq(s, 1, i - 1) \o SubSeq(s, i + 1, Len(s))
Insert(s, i, v) == SubSeq(s, 1, i - 1) \o <<v>> \o SubSeq(s, i, Len(s))
Reversed(s) == [i \in 1..Len(s) |-> s[Len(s) + 1 - i]]

RECURSIVE InsertAll(_, _, _)
\* for col in cs: s.insert(i, col)
InsertAll(s, i, cs) ==
  IF Len(cs) = 0 THEN s ELSE InsertAll(Insert(s, i, Head(cs)), i, Tail(cs))

\* the flags string or the default, as a list of letters
ResolvedSpec(kw) == IF "F" \in DOMAIN kw THEN kw["F"] ELSE DefaultFlags

\* as Substitute, inserting the remaining names without reversed()
Substitute_NoReverse(names, cols) ==
  LET i_x == Index(names, "x")
      i_y == Index(names, "y")
      i_z == Index(names, "z")
      n1 == SetAt(names, i_x, cols[1])
      n2 == SetAt(n1, i_y, cols[2])
      n3 == Pop(n2, i_z)
  IN InsertAll(n3, i_z, SubSeq(cols, 3, Len(cols)))

\* as Substitute, leaving the z placeholder in the list
Substitute_NoPop(names, cols) ==
  LET i_x == Index(names, "x")
      i_y == Index(names, "y")
      i_z == Index(names, "z")
      n1 == SetAt(names, i_x, cols[1])
      n2 == SetAt(n1, i_y, cols[2])
  IN InsertAll(n2, i_z, Reversed(SubSeq(cols, 3, Len(cols))))

\* lines 258-267 once the three indexes and two leading names exist
Substitute(names, cols) ==
  LET i_x == Index(names, "x")
      i_y == Index(names, "y")
      i_z == Index(names, "z")
      n1 == SetAt(names, i_x, cols[1])
      n2 == SetAt(n1, i_y, cols[2])
      n3 == Pop(n2, i_z)
  IN InsertAll(n3, i_z, Reversed(SubSeq(cols, 3, Len(cols))))

\* the exception lines 258-263 raise, "none" when they raise nothing
SubstituteError(names, p) ==
  IF Index(names, "x") = 0 \/ Index(names, "y") = 0 \/ Index(names, "z") = 0
  THEN "ValueError"
  ELSE IF p.kind # "matrix" THEN "AttributeError"
  ELSE IF Len(p.columns) < 2 THEN "IndexError"
  ELSE "none"

(* ------------------------------- Init ---------------------------------- *)
Init ==
  /\ points \in PointsValues
  /\ center \in Centers
  /\ outfileArg \in {NoneValue, UserOutfile}
  /\ \E hasF \in BOOLEAN, f \in FlagStrings, hasG \in BOOLEAN, hasC \in BOOLEAN :
       kwargs = AliasedKwargs(hasF, f, hasG, hasC)
  /\ pc = "start"
  /\ exc = "none"
  /\ outfile = outfileArg
  /\ tmpHeld = FALSE
  /\ sessionOpen = FALSE
  /\ table_context = "none"
  /\ vfOpen = FALSE
  /\ csvfile = <<>>
  /\ calls = <<>>
  /\ trace = <<>>
  /\ column_names = <<>>
  /\ result = [set |-> FALSE, none |-> FALSE, names |-> <<>>]
  /\ outcome = "running"

(* ------------------------------ actions -------------------------------- *)
\* the record of one lib.call_module
CallRecord(args, kw) ==
  [module |-> "project", args |-> args, options |-> kw, staged |-> vfOpen,
   session |-> sessionOpen, tmp |-> tmpHeld]

\* as SetCenter, keeping a C entry the caller passed
SetCenter_KeepUserC ==
  /\ pc = "start"
  /\ kwargs' = IF "C" \in DOMAIN kwargs THEN kwargs
               ELSE SetItem(kwargs, "C", SlashJoin(center))
  /\ pc' = "with_tmpfile"
  /\ UNCHANGED <<points, center, outfileArg, exc, outfile, tmpHeld,
                 sessionOpen, table_context, vfOpen, csvfile, calls, trace,
                 column_names, result, outcome>>

\* line 218
SetCenter ==
  /\ pc = "start"
  /\ kwargs' = SetItem(kwargs, "C", SlashJoin(center))
  /\ pc' = "with_tmpfile"
  /\ UNCHANGED <<points, center, outfileArg, exc, outfile, tmpHeld,
                 sessionOpen, table_context, vfOpen, csvfile, calls, trace,
                 column_names, result, outcome>>

\* as EnterTempFile, writing to the temporary file whatever outfile is
EnterTempFile_IgnoreOutfile ==
  /\ pc = "with_tmpfile"
  /\ tmpHeld' = TRUE
  /\ outfile' = TmpName
  /\ pc' = "with_session"
  /\ UNCHANGED <<points, center, outfileArg, kwargs, exc, sessionOpen,
                 table_context, vfOpen, csvfile, calls, trace, column_names,
                 result, outcome>>

\* lines 220-222
EnterTempFile ==
  /\ pc = "with_tmpfile"
  /\ tmpHeld' = TRUE
  /\ outfile' = IF outfile = NoneValue THEN TmpName ELSE outfile
  /\ pc' = "with_session"
  /\ UNCHANGED <<points, center, outfileArg, kwargs, exc, sessionOpen,
                 table_context, vfOpen, csvfile, calls, trace, column_names,
                 result, outcome>>

\* line 223
EnterSession ==
  /\ pc = "with_session"
  /\ sessionOpen' = TRUE
  /\ pc' = "in_session"
  /\ UNCHANGED <<points, center, outfileArg, kwargs, exc, outfile, tmpHeld,
                 table_context, vfOpen, csvfile, calls, trace, column_names,
                 result, outcome>>

\* as SelectTableContext, passing every non-table input through as a file
SelectTableContext_PassThrough ==
  /\ pc = "in_session"
  /\ "G" \notin DOMAIN kwargs
  /\ IF data_kind(points) = "matrix"
     THEN table_context' = "virtualfile" /\ exc' = exc /\ pc' = "with_table"
     ELSE table_context' = "dummy" /\ exc' = exc /\ pc' = "with_table"
  /\ UNCHANGED <<points, center, outfileArg, kwargs, outfile, tmpHeld,
                 sessionOpen, vfOpen, csvfile, calls, trace, column_names,
                 result, outcome>>

\* lines 224-233
SelectTableContext ==
  /\ pc = "in_session"
  /\ "G" \notin DOMAIN kwargs
  /\ IF data_kind(points) = "matrix"
     THEN table_context' = "virtualfile" /\ exc' = exc /\ pc' = "with_table"
     ELSE IF data_kind(points) = "file"
     THEN IF outfile = NoneValue
          THEN table_context' = table_context /\ exc' = "GMTInvalidInput"
               /\ pc' = "exit_session"
          ELSE table_context' = "dummy" /\ exc' = exc /\ pc' = "with_table"
     ELSE table_context' = table_context /\ exc' = "GMTInvalidInput"
          /\ pc' = "exit_session"
  /\ UNCHANGED <<points, center, outfileArg, kwargs, outfile, tmpHeld,
                 sessionOpen, vfOpen, csvfile, calls, trace, column_names,
                 result, outcome>>

\* line 236, entering the context
EnterTableContext ==
  /\ pc = "with_table"
  /\ csvfile' = IF table_context = "virtualfile" THEN VirtualFileName
                ELSE PointsFile
  /\ vfOpen' = TRUE
  /\ trace' = Append(trace, "stage")
  /\ pc' = "call_table"
  /\ UNCHANGED <<points, center, outfileArg, kwargs, exc, outfile, tmpHeld,
                 sessionOpen, table_context, calls, column_names, result,
                 outcome>>

\* lines 237-240; the module either completes or raises
CallModuleTable ==
  /\ pc = "call_table"
  /\ calls' = Append(calls,
       CallRecord(<<csvfile>> \o build_arg_string(kwargs)
                    \o <<Redirect(outfile)>>, kwargs))
  /\ trace' = Append(trace, "call")
  /\ \E ok \in BOOLEAN : exc' = IF ok THEN exc ELSE "GMTCLibError"
  /\ pc' = "exit_table"
  /\ UNCHANGED <<points, center, outfileArg, kwargs, outfile, tmpHeld,
                 sessionOpen, table_context, vfOpen, csvfile, column_names,
                 result, outcome>>

\* line 236, leaving the context (normally or with an exception pending)
ExitTableContext ==
  /\ pc = "exit_table"
  /\ vfOpen' = FALSE
  /\ trace' = Append(trace, "unstage")
  /\ pc' = "exit_session"
  /\ UNCHANGED <<points, center, outfileArg, kwargs, exc, outfile, tmpHeld,
                 sessionOpen, table_context, csvfile, calls, column_names,
                 result, outcome>>

\* as CallModuleGenerate, handing points to the module as its input
CallModuleGenerate_WithInput ==
  /\ pc = "in_session"
  /\ "G" \in DOMAIN kwargs
  /\ calls' = Append(calls,
       CallRecord(<<PointsFile>> \o build_arg_string(kwargs)
                    \o <<Redirect(outfile)>>, kwargs))
  /\ trace' = Append(trace, "call")
  /\ \E ok \in BOOLEAN : exc' = IF ok THEN exc ELSE "GMTCLibError"
  /\ pc' = "exit_session"
  /\ UNCHANGED <<points, center, outfileArg, kwargs, outfile, tmpHeld,
                 sessionOpen, table_context, vfOpen, csvfile, column_names,
                 result, outcome>>

\* lines 241-243
CallModuleGenerate ==
  /\ pc = "in_session"
  /\ "G" \in DOMAIN kwargs
  /\ calls' = Append(calls,
       CallRecord(build_arg_string(kwargs) \o <<Redirect(outfile)>>, kwargs))
  /\ trace' = Append(trace, "call")
  /\ \E ok \in BOOLEAN : exc' = IF ok THEN exc ELSE "GMTCLibError"
  /\ pc' = "exit_session"
  /\ UNCHANGED <<points, center, outfileArg, kwargs, outfile, tmpHeld,
                 sessionOpen, table_context, vfOpen, csvfile, column_names,
                 result, outcome>>

\* as ExitSession, starting the session over after a module failure
ExitSession_Retry ==
  /\ pc = "exit_session"
  /\ sessionOpen' = FALSE
  /\ pc' = IF exc = "none" THEN "shape"
           ELSE IF exc = "GMTCLibError" THEN "with_session"
           ELSE "exit_tmpfile"
  /\ exc' = IF exc = "GMTCLibError" THEN "none" ELSE exc
  /\ UNCHANGED <<points, center, outfileArg, kwargs, outfile, tmpHeld,
                 table_context, vfOpen, csvfile, calls, trace, column_names,
                 result, outcome>>

\* line 223, leaving the session
ExitSession ==
  /\ pc = "exit_session"
  /\ sessionOpen' = FALSE
  /\ pc' = IF exc = "none" THEN "shape" ELSE "exit_tmpfile"
  /\ UNCHANGED <<points, center, outfileArg, kwargs, exc, outfile, tmpHeld,
                 table_context, vfOpen, csvfile, calls, trace, column_names,
                 result, outcome>>

\* as SetColumnNames, substituting the input names in generate mode too
SetColumnNames_NoGenerateCheck ==
  /\ pc = "shape"
  /\ outfile = TmpName
  /\ LET names == ResolvedSpec(kwargs)
         err == SubstituteError(names, points)
     IN /\ trace' = Append(trace, "substitute")
        /\ IF err = "none"
           THEN /\ column_names' = Substitute(names, points.columns)
                /\ exc' = exc /\ pc' = "read_csv"
           ELSE /\ column_names' = names
                /\ exc' = err /\ pc' = "exit_tmpfile"
  /\ UNCHANGED <<points, center, outfileArg, kwargs, outfile, tmpHeld,
                 sessionOpen, table_context, vfOpen, csvfile, calls, result,
                 outcome>>

\* lines 246-267
SetColumnNames ==
  /\ pc = "shape"
  /\ outfile = TmpName
  /\ IF "G" \in DOMAIN kwargs
     THEN /\ column_names' = GenerateColumns
          /\ exc' = exc /\ trace' = trace /\ pc' = "read_csv"
     ELSE LET names == ResolvedSpec(kwargs)
              err == SubstituteError(names, points)
          IN /\ trace' = Append(trace, "substitute")
             /\ IF err = "none"
                THEN /\ column_names' = Substitute(names, points.columns)
                     /\ exc' = exc /\ pc' = "read_csv"
                ELSE /\ column_names' = names
                     /\ exc' = err /\ pc' = "exit_tmpfile"
  /\ UNCHANGED <<points, center, outfileArg, kwargs, outfile, tmpHeld,
                 sessionOpen, table_context, vfOpen, csvfile, calls, result,
                 outcome>>

\* line 268; the reader either returns a table or raises
ReadCsv ==
  /\ pc = "read_csv"
  /\ trace' = Append(trace, "parse")
  /\ \E ok \in BOOLEAN :
       IF ok
       THEN result' = [set |-> TRUE, none |-> FALSE, names |-> column_names]
            /\ exc' = exc
       ELSE result' = result /\ exc' = "ParserError"
  /\ pc' = "exit_tmpfile"
  /\ UNCHANGED <<points, center, outfileArg, kwargs, outfile, tmpHeld,
                 sessionOpen, table_context, vfOpen, csvfile, calls,
                 column_names, outcome>>

\* lines 270-271
SetResultNone ==
  /\ pc = "shape"
  /\ outfile # TmpName
  /\ result' = [set |-> TRUE, none |-> TRUE, names |-> <<>>]
  /\ pc' = "exit_tmpfile"
  /\ UNCHANGED <<points, center, outfileArg, kwargs, exc, outfile, tmpHeld,
                 sessionOpen, table_context, vfOpen, csvfile, calls, trace,
                 column_names, outcome>>

\* as ExitTempFile, removing the file only when no exception is pending
ExitTempFile_OnlyOnSuccess ==
  /\ pc = "exit_tmpfile"
  /\ tmpHeld' = (exc # "none")
  /\ outcome' = IF exc = "none" THEN "returned" ELSE exc
  /\ pc' = "done"
  /\ UNCHANGED <<points, center, outfileArg, kwargs, exc, outfile,
                 sessionOpen, table_context, vfOpen, csvfile, calls, trace,
                 column_names, result>>

\* line 220, leaving the temporary file, then line 273 or the propagation
ExitTempFile ==
  /\ pc = "exit_tmpfile"
  /\ tmpHeld' = FALSE
  /\ outcome' = IF exc = "none" THEN "returned" ELSE exc
  /\ pc' = "done"
  /\ UNCHANGED <<points, center, outfileArg, kwargs, exc, outfile,
                 sessionOpen, table_context, vfOpen, csvfile, calls, trace,
                 column_names, result>>

Next ==
  \/ SetCenter
  \/ EnterTempFile
  \/ EnterSession
  \/ SelectTableContext
  \/ EnterTableContext
  \/ CallModuleTable
  \/ ExitTableContext
  \/ CallModuleGenerate
  \/ ExitSession
  \/ SetColumnNames
  \/ ReadCsv
  \/ SetResultNone
  \/ ExitTempFile

Spec == Init /\ [][Next]_vars

(* ------------------------- shared vocabulary --------------------------- *)
Done == pc = "done"
Generate == "G" \in DOMAIN kwargs
Occurs(ev) == \E i \in 1..Len(trace) : trace[i] = ev
Before(a, b) ==
  \A j \in 1..Len(trace) : trace[j] = b => \E i \in 1..(j - 1) : trace[i] = a
IsTable(r) == r.set /\ ~r.none
IsNone(r) == r.set /\ r.none
Last(s) == s[Len(s)]
IsOptionToken(t) == Len(t) >= 2 /\ t[1] = "-"

(* C1: without generate, a file path as points and no outfile makes the    *)
(* call fail with GMTInvalidInput before any module invocation.            *)
C1_FileWithoutOutfileIsInvalid ==
  (Done /\ ~Generate /\ data_kind(points) = "file" /\ outfileArg = NoneValue)
    => (outcome = "GMTInvalidInput" /\ Len(calls) = 0)

(* C2: with an explicit outfile and an accepted input the module is        *)
(* invoked exactly once, redirected to that outfile, nothing is            *)
(* substituted or parsed, and what the call returns is None (the only      *)
(* other way out is the module's own failure).                             *)
C2_ExplicitOutfileReturnsNone ==
  (Done /\ outfileArg # NoneValue
        /\ (Generate \/ data_kind(points) \in {"matrix", "file"}))
    => /\ Len(calls) = 1
       /\ Last(calls[1].args) = Redirect(outfileArg)
       /\ ~Occurs("substitute") /\ ~Occurs("parse")
       /\ column_names = <<>>
       /\ ~IsTable(result)
       /\ outcome \in {"returned", "GMTCLibError"}
       /\ (outcome = "returned" => IsNone(result))

C2_Witness ==
  Done /\ outfileArg = UserOutfile /\ data_kind(points) = "file"
       /\ ~Generate /\ outcome = "returned" /\ IsNone(result)
       /\ Len(calls) = 1

(* C3: with generate and no outfile, points is never staged or read, the   *)
(* module gets only option tokens and the redirection, and a returned      *)
(* table has exactly the column names r, s, p.                             *)
C3_GenerateIgnoresPoints ==
  (Done /\ Generate /\ outfileArg = NoneValue)
    => /\ ~Occurs("stage") /\ ~Occurs("substitute")
       /\ table_context = "none" /\ csvfile = <<>>
       /\ Len(calls) = 1
       /\ LET a == calls[1].args
          IN /\ Len(a) = Cardinality(DOMAIN kwargs) + 1
             /\ Last(a) = Redirect(TmpName)
             /\ \A i \in 1..(Len(a) - 1) : IsOptionToken(a[i])
       /\ outcome \in {"returned", "GMTCLibError", "ParserError"}
       /\ (outcome = "returned" =>
             IsTable(result) /\ result.names = <<"r", "s", "p">>)

C3_Witness ==
  Done /\ Generate /\ outfileArg = NoneValue /\ outcome = "returned"
       /\ data_kind(points) = "matrix" /\ Len(points.columns) = 4
       /\ "F" \in DOMAIN kwargs /\ Len(result.names) = 3

(* C4: on a table with N >= 2 columns and a spec containing x, y and z,    *)
(* the returned names are the spec with x and y replaced by the first two  *)
(* input names and z replaced in place by the N-2 remaining names in       *)
(* their original order, every other letter keeping its relative order.    *)
C4_Replaced(l) ==
  IF l = "x" THEN points.columns[1]
  ELSE IF l = "y" THEN points.columns[2] ELSE l

C4_SubstitutionInPlace ==
  LET spec == ResolvedSpec(kwargs)
      cols == points.columns
      N == Len(cols)
      r == result.names
  IN (Done /\ ~Generate /\ outfileArg = NoneValue
           /\ data_kind(points) = "matrix" /\ N >= 2
           /\ {"x", "y", "z"} \subseteq {spec[i] : i \in 1..Len(spec)})
       => /\ outcome \in {"returned", "GMTCLibError", "ParserError"}
          /\ (outcome = "returned" =>
               /\ IsTable(result)
               /\ Len(r) = Len(spec) - 1 + (N - 2)
               /\ \A i \in 1..Len(spec) :
                    /\ (\E j \in (i + 1)..Len(spec) : spec[j] = "z")
                         => r[i] = C4_Replaced(spec[i])
                    /\ (\E j \in 1..(i - 1) : spec[j] = "z")
                         => r[i + N - 3] = C4_Replaced(spec[i])
                    /\ spec[i] = "z" =>
                         \A k \in 1..(N - 2) : r[i + k - 1] = cols[k + 2])

C4_Witness ==
  Done /\ ~Generate /\ outfileArg = NoneValue /\ outcome = "returned"
       /\ Len(points.columns) = 4
       /\ "F" \in DOMAIN kwargs /\ kwargs["F"] = <<"p", "z", "y", "x">>
       /\ result.names = <<"p", points.columns[3], points.columns[4],
                           points.columns[2], points.columns[1]>>

C4_WitnessTwoColumns ==
  Done /\ ~Generate /\ outfileArg = NoneValue /\ outcome = "returned"
       /\ Len(points.columns) = 2 /\ "F" \notin DOMAIN kwargs
       /\ Len(result.names) = 6

C6_CenterAlwaysPassed ==
  \A i \in 1..Len(calls) :
    LET joined == Format(center[1]) \o <<"/">> \o Format(center[2])
    IN /\ "C" \in DOMAIN calls[i].options
       /\ calls[i].options["C"] = joined
       /\ \E t \in 1..Len(calls[i].args) :
            calls[i].args[t] = <<"-", "C">> \o joined
       /\ \A t \in 1..Len(calls[i].args) :
            (Len(calls[i].args[t]) >= 2 /\ calls[i].args[t][1] = "-"
               /\ calls[i].args[t][2] = "C")
              => calls[i].args[t] = <<"-", "C">> \o joined

C6_WitnessGenerate ==
  Len(calls) = 1 /\ Generate /\ "F" \in DOMAIN kwargs
     /\ center = <<0, 1>> /\ calls[1].options["C"] = <<"0", "/", "1">>

C6_WitnessTable ==
  Len(calls) = 1 /\ ~Generate /\ calls[1].staged
     /\ center = <<1, 0>> /\ calls[1].options["C"] = <<"1", "/", "0">>

(* C7: once the temporary file is acquired, every way the call ends        *)
(* (table, None, invalid input, module failure, substitution or parsing    *)
(* failure) has released it; no call ends still holding it, and it is      *)
(* held throughout the work in between.                                    *)
C7_TempFileReleased ==
  /\ Done => (~tmpHeld /\ ~sessionOpen /\ ~vfOpen)
  /\ (pc \in {"with_session", "in_session", "with_table", "call_table",
              "exit_table", "exit_session", "shape", "read_csv",
              "exit_tmpfile"}) => tmpHeld
  /\ Done => outcome \in {"returned", "GMTInvalidInput", "GMTCLibError",
                          "ValueError", "AttributeError", "IndexError",
                          "ParserError"}

C7_WitnessInvalidInput == Done /\ outcome = "GMTInvalidInput" /\ ~tmpHeld
C7_WitnessModuleFailure == Done /\ outcome = "GMTCLibError" /\ ~tmpHeld
C7_WitnessSubstitutionFailure == Done /\ outcome = "IndexError" /\ ~tmpHeld
C7_WitnessParserFailure == Done /\ outcome = "ParserError" /\ ~tmpHeld
C7_WitnessNone == Done /\ outcome = "returned" /\ IsNone(result) /\ ~tmpHeld
C7_WitnessTable == Done /\ outcome = "returned" /\ IsTable(result) /\ ~tmpHeld

(* C8: without generate, points that is neither a table nor a file path    *)
(* makes the call fail with GMTInvalidInput, with no module invocation     *)
(* and no result, whether or not outfile is given.                         *)
C8_UnrecognizedInputIsInvalid ==
  (~Generate /\ data_kind(points) \notin {"matrix", "file"})
    => /\ Len(calls) = 0
       /\ ~result.set
       /\ ~Occurs("stage")
       /\ Done => outcome = "GMTInvalidInput"

C8_Witness ==
  Done /\ ~Generate /\ data_kind(points) = "other"
       /\ outfileArg = UserOutfile /\ outcome = "GMTInvalidInput"

C9_WitnessGenerate ==
  Done /\ Generate /\ outfileArg = NoneValue /\ "F" \in DOMAIN kwargs
       /\ kwargs["F"] = <<"p">> /\ outcome = "returned"

C10_WitnessGenerate == Done /\ Generate /\ trace = <<"call", "parse">>
====
